---- MODULE Spec2Model ----
(***************************************************************************)
(* HRMS backend: employees and daily attendance kept in a relational       *)
(* store, accessed by request handlers that each run inside one database   *)
(* session (app/core/database.py get_db).  Requests interleave at every    *)
(* await; the store runs each statement against the committed rows         *)
(* (READ COMMITTED) and enforces the declared constraints at insert.       *)
(***************************************************************************)
EXTENDS Integers, Sequences, FiniteSets, TLC

\* ---------------------------------------------------------------- bounds
NumReqs == 2
MaxEmpPk == 2
MaxAttPk == 2
MaxDate == 2

Reqs == 1..NumReqs
Dates == 1..MaxDate

\* ------------------------------------------------------------ input data
\* Strings are sequences of characters so that strip() and lower() act on them.
RawCodes == {<<"E">>, <<"F", " ">>}
RawEmails == {<<"a">>, <<" ", "A">>, <<"b">>}
StatusValues == {"present", "absent"}

RECURSIVE LStrip(_)
LStrip(s) == IF s # <<>> /\ Head(s) = " " THEN LStrip(Tail(s)) ELSE s

RECURSIVE RStrip(_)
RStrip(s) ==
    IF s # <<>> /\ s[Len(s)] = " " THEN RStrip(SubSeq(s, 1, Len(s) - 1)) ELSE s

Strip(s) == RStrip(LStrip(s))

LowerChar(c) == CASE c = "A" -> "a" [] c = "B" -> "b" [] OTHER -> c

Lower(s) == [i \in 1..Len(s) |-> LowerChar(s[i])]

\* EmployeeCreate.strip_whitespace
strip_whitespace(v) == Strip(v)

\* Variant: the e-mail is stored and compared as typed.
KeepEmailAsTyped(v) == v

\* EmployeeCreate.normalize_email
normalize_email(v) == Lower(Strip(v))

\* Optional[T] is the empty set (None) or a singleton.
None == {}
Some(v) == {v}
Val(o) == CHOOSE v \in o : TRUE

\* Python truthiness of an Optional[int]: None and 0 are falsy.
TruthyInt(o) == o # None /\ Val(o) # 0

\* Python truthiness of an Optional[date]: every date object is truthy.
TruthyDate(o) == o # None

VARIABLES
    employees,   \* committed rows of employees_employee
    attendance,  \* committed rows of attendance_attendance
    emp_seq,     \* last value of the employees id sequence
    att_seq,     \* last value of the attendance id sequence
    pc,          \* position of each request
    payload,     \* validated input of each request
    local,       \* handler locals of each request
    txn,         \* session of each request: state and flushed, uncommitted writes
    result       \* response kind of each request

vars == <<employees, attendance, emp_seq, att_seq, pc, payload, local, txn, result>>

NoPayload ==
    [op |-> "none", raw_code |-> <<>>, raw_email |-> <<>>, employee_id |-> <<>>,
     email |-> <<>>, pk |-> 0, date |-> 0, status |-> "none",
     f_emp |-> None, f_date |-> None, today |-> 0,
     q_from |-> None, q_to |-> None]

NoLocal == [errors |-> {}, out |-> <<>>, total |-> 0, present |-> 0, absent |-> 0]

NoTxn == [state |-> "none", newEmp |-> {}, newAtt |-> {}, delEmp |-> {}, delAtt |-> {}]

Init ==
    /\ employees = {}
    /\ attendance = {}
    /\ emp_seq = 0
    /\ att_seq = 0
    /\ pc = [r \in Reqs |-> "idle"]
    /\ payload = [r \in Reqs |-> NoPayload]
    /\ local = [r \in Reqs |-> NoLocal]
    /\ txn = [r \in Reqs |-> NoTxn]
    /\ result = [r \in Reqs |-> "none"]

Others(r) == Reqs \ {r}

\* The flushed, uncommitted writes of request q (none once its session has ended).
Pending(q) == IF txn[q].state = "open" THEN txn[q] ELSE NoTxn

\* get_db: async_session() opens the session the handler receives.
OpenSession == [NoTxn EXCEPT !.state = "open"]

\* Requests of operation o that may still draw a value from an id sequence.
InFlight(o) == Cardinality({q \in Reqs : payload[q].op = o /\ result[q] = "none"})

Begin(r, p, first) ==
    /\ pc[r] = "idle"
    /\ pc' = [pc EXCEPT ![r] = first]
    /\ payload' = [payload EXCEPT ![r] = p]
    /\ local' = [local EXCEPT ![r] = NoLocal]
    /\ txn' = [txn EXCEPT ![r] = OpenSession]
    /\ result' = [result EXCEPT ![r] = "none"]
    /\ UNCHANGED <<employees, attendance, emp_seq, att_seq>>

\* ------------------------------------------------------ POST /employees/
BeginCreateEmployee(r) ==
    /\ emp_seq + InFlight("create_employee") < MaxEmpPk
    /\ \E c \in RawCodes, e \in RawEmails :
          Begin(r, [NoPayload EXCEPT !.op = "create_employee",
                                     !.raw_code = c, !.raw_email = e,
                                     !.employee_id = strip_whitespace(c),
                                     !.email = normalize_email(e)],
                "ce_check_id")

check_employee_id_exists(emp_id) ==
    \E e \in employees : e.employee_id = emp_id

check_email_exists(email) ==
    \E e \in employees : e.email = email

CeCheckId(r) ==
    /\ pc[r] = "ce_check_id"
    /\ local' = [local EXCEPT ![r].errors =
                    IF check_employee_id_exists(payload[r].employee_id)
                    THEN {"employee_id"} ELSE {}]
    /\ pc' = [pc EXCEPT ![r] = "ce_check_email"]
    /\ UNCHANGED <<employees, attendance, emp_seq, att_seq, payload, txn, result>>

CeCheckEmail(r) ==
    /\ pc[r] = "ce_check_email"
    /\ LET errs == local[r].errors \cup
                   (IF check_email_exists(payload[r].email) THEN {"email"} ELSE {})
       IN /\ local' = [local EXCEPT ![r].errors = errs]
          /\ IF errs # {}
             THEN /\ result' = [result EXCEPT ![r] = "Conflict"]
                  /\ pc' = [pc EXCEPT ![r] = "commit"]
             ELSE /\ result' = result
                  /\ pc' = [pc EXCEPT ![r] = "ce_insert"]
    /\ UNCHANGED <<employees, attendance, emp_seq, payload, att_seq, txn>>

\* unique=True on Employee.employee_id and Employee.email
EmployeeUniqueViolation(row, table) ==
    \E e \in table : e.employee_id = row.employee_id \/ e.email = row.email

\* employee_service.create_employee: db.add, flush (INSERT), refresh.
CeInsert(r) ==
    /\ pc[r] = "ce_insert"
    /\ LET row == [id |-> emp_seq + 1, employee_id |-> payload[r].employee_id,
                   email |-> payload[r].email]
       IN \* the INSERT waits for a concurrent uncommitted row with the same key
          /\ \A q \in Others(r) : ~EmployeeUniqueViolation(row, Pending(q).newEmp)
          /\ emp_seq' = emp_seq + 1
          /\ IF EmployeeUniqueViolation(row, employees)
             THEN \* IntegrityError propagates out of the handler
                  /\ result' = [result EXCEPT ![r] = "Internal"]
                  /\ pc' = [pc EXCEPT ![r] = "rollback"]
                  /\ txn' = txn
             ELSE /\ result' = [result EXCEPT ![r] = "OK"]
                  /\ pc' = [pc EXCEPT ![r] = "commit"]
                  /\ txn' = [txn EXCEPT ![r].newEmp = {row}]
    /\ UNCHANGED <<employees, attendance, att_seq, payload, local>>

\* Variant: the lookup ignores the primary key.
AnyEmployee(pk) == employees

\* employee_service.get_employee_by_id: db.get(Employee, pk)
get_employee_by_id(pk) == {e \in employees : e.id = pk}

\* ------------------------------------------- DELETE /employees/{employee_pk}/
BeginDeleteEmployee(r) ==
    \E k \in 1..MaxEmpPk :
        Begin(r, [NoPayload EXCEPT !.op = "delete_employee", !.pk = k], "de_get")

DeGet(r) ==
    /\ pc[r] = "de_get"
    /\ IF get_employee_by_id(payload[r].pk) = {}
       THEN \* raise HTTPException(404)
            /\ result' = [result EXCEPT ![r] = "NotFound"]
            /\ pc' = [pc EXCEPT ![r] = "rollback"]
       ELSE /\ result' = result
            /\ pc' = [pc EXCEPT ![r] = "de_delete"]
    /\ UNCHANGED <<employees, attendance, emp_seq, att_seq, payload, local, txn>>

\* Variant: the relationship loads every attendance row, not only the employee's.
OrmCascadeAll(pk) == {a.id : a \in attendance}

\* Employee.attendances, cascade="all, delete-orphan": the flush loads the
\* employee's attendance rows and deletes each of them before the employee.
OrmCascade(pk) == {a.id : a \in {x \in attendance : x.employee_id = pk}}

\* Rows of the employee pk written and not yet committed by another session.
EmployeeLockedBy(q, pk) ==
    \/ pk \in Pending(q).delEmp
    \/ \E a \in Pending(q).newAtt : a.employee_id = pk
    \/ \E a \in attendance : a.employee_id = pk /\ a.id \in Pending(q).delAtt

\* employee_service.delete_employee: db.delete, flush.
DeDelete(r) ==
    /\ pc[r] = "de_delete"
    /\ \A q \in Others(r) : ~EmployeeLockedBy(q, payload[r].pk)
    /\ txn' = [txn EXCEPT ![r].delEmp = {payload[r].pk},
                          ![r].delAtt = OrmCascade(payload[r].pk)]
    /\ result' = [result EXCEPT ![r] = "OK"]
    /\ pc' = [pc EXCEPT ![r] = "commit"]
    /\ UNCHANGED <<employees, attendance, emp_seq, att_seq, payload, local>>

\* ----------------------------------------------------- POST /attendance/
BeginCreateAttendance(r) ==
    /\ att_seq + InFlight("create_attendance") < MaxAttPk
    /\ \E k \in 1..MaxEmpPk, d \in Dates, s \in StatusValues :
          Begin(r, [NoPayload EXCEPT !.op = "create_attendance", !.pk = k,
                                     !.date = d, !.status = s],
                "ca_get_employee")

CaGetEmployee(r) ==
    /\ pc[r] = "ca_get_employee"
    /\ IF get_employee_by_id(payload[r].pk) = {}
       THEN /\ result' = [result EXCEPT ![r] = "EmployeeNotFound"]
            /\ pc' = [pc EXCEPT ![r] = "commit"]
       ELSE /\ result' = result
            /\ pc' = [pc EXCEPT ![r] = "ca_check_dup"]
    /\ UNCHANGED <<employees, attendance, emp_seq, att_seq, payload, local, txn>>

\* attendance_service.check_attendance_exists (exclude_pk is never passed)
check_attendance_exists(emp_id, att_date) ==
    \E a \in attendance : a.employee_id = emp_id /\ a.date = att_date

CaCheckDup(r) ==
    /\ pc[r] = "ca_check_dup"
    /\ IF check_attendance_exists(payload[r].pk, payload[r].date)
       THEN /\ result' = [result EXCEPT ![r] = "Duplicate"]
            /\ pc' = [pc EXCEPT ![r] = "commit"]
       ELSE /\ result' = result
            /\ pc' = [pc EXCEPT ![r] = "ca_insert"]
    /\ UNCHANGED <<employees, attendance, emp_seq, att_seq, payload, local, txn>>

\* Variant: the table has no unique constraint on (employee_id, date).
NoUniqueConstraint(row, table) == FALSE

\* UniqueConstraint("employee_id", "date", name="unique_employee_date")
unique_employee_date(row, table) ==
    \E a \in table : a.employee_id = row.employee_id /\ a.date = row.date

\* Variant: the column is a plain integer without a foreign key.
NoForeignKey(row, table) == TRUE

\* ForeignKey("employees_employee.id"): the referenced employee row must exist.
ForeignKeyHolds(row, table) == \E e \in table : e.id = row.employee_id

\* attendance_service.create_attendance: db.add, flush (INSERT), refresh; the
\* route then reloads the row it has just inserted.
CaInsert(r) ==
    /\ pc[r] = "ca_insert"
    /\ LET row == [id |-> att_seq + 1, employee_id |-> payload[r].pk,
                   date |-> payload[r].date, status |-> payload[r].status]
       IN \* the INSERT waits for concurrent uncommitted writes it conflicts with
          /\ \A q \in Others(r) : /\ ~unique_employee_date(row, Pending(q).newAtt)
                                  /\ row.employee_id \notin Pending(q).delEmp
          /\ att_seq' = att_seq + 1
          /\ IF \/ unique_employee_date(row, attendance)
                \/ ~ForeignKeyHolds(row, employees)
             THEN \* IntegrityError propagates out of the handler
                  /\ result' = [result EXCEPT ![r] = "Internal"]
                  /\ pc' = [pc EXCEPT ![r] = "rollback"]
                  /\ txn' = txn
             ELSE /\ result' = [result EXCEPT ![r] = "OK"]
                  /\ pc' = [pc EXCEPT ![r] = "commit"]
                  /\ txn' = [txn EXCEPT ![r].newAtt = {row}]
    /\ UNCHANGED <<employees, attendance, emp_seq, payload, local>>

\* ------------------------------------------------- DELETE /attendance/{pk}/
BeginDeleteAttendance(r) ==
    \E k \in 1..MaxAttPk :
        Begin(r, [NoPayload EXCEPT !.op = "delete_attendance", !.pk = k], "da_get")

\* attendance_service.get_attendance_with_employee
get_attendance_with_employee(pk) == {a \in attendance : a.id = pk}

DaGet(r) ==
    /\ pc[r] = "da_get"
    /\ IF get_attendance_with_employee(payload[r].pk) = {}
       THEN \* returns the error body; the handler does not raise
            /\ result' = [result EXCEPT ![r] = "AttendanceNotFound"]
            /\ pc' = [pc EXCEPT ![r] = "commit"]
       ELSE /\ result' = result
            /\ pc' = [pc EXCEPT ![r] = "da_delete"]
    /\ UNCHANGED <<employees, attendance, emp_seq, att_seq, payload, local, txn>>

\* Attendance row pk written and not yet committed by another session.
AttendanceLockedBy(q, pk) ==
    \/ pk \in Pending(q).delAtt
    \/ \E a \in attendance : a.id = pk /\ a.employee_id \in Pending(q).delEmp

\* attendance_service.delete_attendance: db.delete, flush.
DaDelete(r) ==
    /\ pc[r] = "da_delete"
    /\ \A q \in Others(r) : ~AttendanceLockedBy(q, payload[r].pk)
    /\ txn' = [txn EXCEPT ![r].delAtt = {payload[r].pk}]
    /\ result' = [result EXCEPT ![r] = "OK"]
    /\ pc' = [pc EXCEPT ![r] = "commit"]
    /\ UNCHANGED <<employees, attendance, emp_seq, att_seq, payload, local>>

\* -------------------------------------------------------- GET /attendance/
\* The date query parameter as sent: a string that is an ISO date or is not.
DateStrings == {[iso |-> TRUE, day |-> d] : d \in Dates} \cup {[iso |-> FALSE, day |-> 0]}

\* list_attendance: date_type.fromisoformat(date) inside try/except ValueError: pass
ParseFilterDate(param) ==
    IF param # None /\ Val(param).iso THEN Some(Val(param).day) ELSE None

BeginListAttendance(r) ==
    \E e \in {None} \cup {Some(k) : k \in 0..MaxEmpPk},
       d \in {None} \cup {Some(x) : x \in DateStrings} :
        Begin(r, [NoPayload EXCEPT !.op = "list_attendance", !.f_emp = e,
                                   !.f_date = ParseFilterDate(d)],
              "la_query")

MaxOf(S) == CHOOSE m \in S : \A x \in S : x <= m

\* .order_by(Attendance.date.desc()): every arrangement of the rows with the
\* dates non-increasing; the order among rows of one date is the store's choice.
RECURSIVE OrderByDateDesc(_)
OrderByDateDesc(rows) ==
    IF rows = {} THEN {<<>>}
    ELSE LET m == MaxOf({a.date : a \in rows})
         IN UNION {{<<h>> \o t : t \in OrderByDateDesc(rows \ {h})} :
                      h \in {a \in rows : a.date = m}}

\* attendance_service.get_attendance_list: the rows the WHERE clauses keep.
ListFilter(employee_id, filter_date) ==
    {a \in attendance :
        /\ TruthyInt(employee_id) => a.employee_id = Val(employee_id)
        /\ TruthyDate(filter_date) => a.date = Val(filter_date)}

get_attendance_list(employee_id, filter_date) ==
    OrderByDateDesc(ListFilter(employee_id, filter_date))

LaQuery(r) ==
    /\ pc[r] = "la_query"
    /\ \E records \in get_attendance_list(payload[r].f_emp, payload[r].f_date) :
          local' = [local EXCEPT ![r].out = records]
    /\ result' = [result EXCEPT ![r] = "OK"]
    /\ pc' = [pc EXCEPT ![r] = "commit"]
    /\ UNCHANGED <<employees, attendance, emp_seq, att_seq, payload, txn>>

\* ------------------------------------------------ GET /attendance/summary/
\* today = date.today()
BeginSummary(r) ==
    \E t \in 1..(MaxDate + 1) :
        Begin(r, [NoPayload EXCEPT !.op = "summary", !.today = t], "s_total")

\* select(func.count(Employee.id))
CountEmployees == Cardinality({e.id : e \in employees})

STotal(r) ==
    /\ pc[r] = "s_total"
    /\ local' = [local EXCEPT ![r].total = CountEmployees]
    /\ pc' = [pc EXCEPT ![r] = "s_present"]
    /\ UNCHANGED <<employees, attendance, emp_seq, att_seq, payload, txn, result>>

\* Variant: the status condition is missing from the WHERE clause.
CountTodayAnyStatus(today, status) ==
    Cardinality({a.id : a \in {x \in attendance : x.date = today}})

\* select(func.count(Attendance.id)).where(date == today, status == ...)
CountToday(today, status) ==
    Cardinality({a.id : a \in {x \in attendance : x.date = today /\ x.status = status}})

SPresent(r) ==
    /\ pc[r] = "s_present"
    /\ local' = [local EXCEPT ![r].present = CountToday(payload[r].today, "present")]
    /\ pc' = [pc EXCEPT ![r] = "s_absent"]
    /\ UNCHANGED <<employees, attendance, emp_seq, att_seq, payload, txn, result>>

SAbsent(r) ==
    /\ pc[r] = "s_absent"
    /\ local' = [local EXCEPT ![r].absent = CountToday(payload[r].today, "absent")]
    /\ pc' = [pc EXCEPT ![r] = "s_counts"]
    /\ UNCHANGED <<employees, attendance, emp_seq, att_seq, payload, txn, result>>

\* .where(status == "present").group_by(employee_id): one row per employee_id
\* occurring among the present rows, with func.count(Attendance.id).
PresentDaysGroups ==
    LET present == {a \in attendance : a.status = "present"}
    IN {[employee_id |-> e,
         present_days |-> Cardinality({a.id : a \in {x \in present : x.employee_id = e}})] :
           e \in {a.employee_id : a \in present}}

\* Variant: ascending order.
OrderByCountAsc(groups) ==
    {s \in [1..Cardinality(groups) -> groups] :
        /\ \A i, j \in DOMAIN s : i < j => s[i].present_days <= s[j].present_days
        /\ \A i, j \in DOMAIN s : s[i] = s[j] => i = j}

\* .order_by(func.count(Attendance.id).desc()): ties in the store's order.
RECURSIVE OrderByCountDesc(_)
OrderByCountDesc(groups) ==
    IF groups = {} THEN {<<>>}
    ELSE LET m == MaxOf({g.present_days : g \in groups})
         IN UNION {{<<h>> \o t : t \in OrderByCountDesc(groups \ {h})} :
                      h \in {g \in groups : g.present_days = m}}

SCounts(r) ==
    /\ pc[r] = "s_counts"
    /\ \E rows \in OrderByCountDesc(PresentDaysGroups) :
          local' = [local EXCEPT ![r].out = rows]
    /\ result' = [result EXCEPT ![r] = "OK"]
    /\ pc' = [pc EXCEPT ![r] = "commit"]
    /\ UNCHANGED <<employees, attendance, emp_seq, att_seq, payload, txn>>

\* ------------------------------------- GET /attendance/employee/{employee_pk}/
\* The "from" and "to" query parameters as sent (absent, an ISO date, or a string
\* that is no ISO date).
BeginByEmployee(r) ==
    \E k \in 1..MaxEmpPk, f, t \in {None} \cup {Some(x) : x \in DateStrings} :
        Begin(r, [NoPayload EXCEPT !.op = "by_employee", !.pk = k,
                                   !.q_from = f, !.q_to = t],
              "be_get")

BeGet(r) ==
    /\ pc[r] = "be_get"
    /\ IF get_employee_by_id(payload[r].pk) = {}
       THEN \* returns the error body; the handler does not raise
            /\ result' = [result EXCEPT ![r] = "EmployeeNotFound"]
            /\ pc' = [pc EXCEPT ![r] = "commit"]
       ELSE /\ result' = result
            /\ pc' = [pc EXCEPT ![r] = "be_query"]
    /\ UNCHANGED <<employees, attendance, emp_seq, att_seq, payload, local, txn>>

\* attendance_by_employee: both parameters are parsed inside one try block, "from"
\* first; a ValueError leaves the block with whatever was assigned before it.
ParseRange(from_date, to_date) ==
    IF from_date # None /\ ~Val(from_date).iso
    THEN [d_from |-> None, d_to |-> None]
    ELSE [d_from |-> IF from_date # None THEN Some(Val(from_date).day) ELSE None,
          d_to |-> IF to_date # None /\ Val(to_date).iso
                   THEN Some(Val(to_date).day) ELSE None]

\* Variant: the range bounds are exclusive.
ByEmployeeExclusive(employee_pk, date_from, date_to) ==
    OrderByDateDesc({a \in attendance :
                        /\ a.employee_id = employee_pk
                        /\ TruthyDate(date_from) => a.date > Val(date_from)
                        /\ TruthyDate(date_to) => a.date < Val(date_to)})

\* attendance_service.get_attendance_by_employee
get_attendance_by_employee(employee_pk, date_from, date_to) ==
    OrderByDateDesc({a \in attendance :
                        /\ a.employee_id = employee_pk
                        /\ TruthyDate(date_from) => a.date >= Val(date_from)
                        /\ TruthyDate(date_to) => a.date <= Val(date_to)})

BeQuery(r) ==
    /\ pc[r] = "be_query"
    /\ LET d == ParseRange(payload[r].q_from, payload[r].q_to)
       IN \E records \in get_attendance_by_employee(payload[r].pk, d.d_from, d.d_to) :
             local' = [local EXCEPT ![r].out = records]
    /\ result' = [result EXCEPT ![r] = "OK"]
    /\ pc' = [pc EXCEPT ![r] = "commit"]
    /\ UNCHANGED <<employees, attendance, emp_seq, att_seq, payload, txn>>

\* ------------------------------------------------------------ get_db exit
\* session.commit(): the flushed writes become visible; ON DELETE CASCADE
\* removes the attendance rows of a deleted employee.
CascadeRows(att, pks) == {a \in att : a.employee_id \in pks}

\* Variant: one session shared by all requests, so a commit publishes the flushed
\* writes of every request in flight.
SharedSessionWrites(r) ==
    [state |-> "open",
     newEmp |-> UNION {Pending(q).newEmp : q \in Reqs},
     newAtt |-> UNION {Pending(q).newAtt : q \in Reqs},
     delEmp |-> UNION {Pending(q).delEmp : q \in Reqs},
     delAtt |-> UNION {Pending(q).delAtt : q \in Reqs}]

\* async with async_session() as session: each request commits its own session.
SessionWrites(r) == txn[r]

Commit(r) ==
    /\ pc[r] = "commit"
    /\ LET w == SessionWrites(r)
       IN /\ employees' = {e \in employees : e.id \notin w.delEmp} \cup w.newEmp
          /\ attendance' = ({a \in attendance : a.id \notin w.delAtt}
                              \ CascadeRows(attendance, w.delEmp)) \cup w.newAtt
    /\ txn' = [txn EXCEPT ![r].state = "committed"]
    /\ pc' = [pc EXCEPT ![r] = "close"]
    /\ UNCHANGED <<emp_seq, att_seq, payload, local, result>>

\* except Exception: session.rollback(); raise
Rollback(r) ==
    /\ pc[r] = "rollback"
    /\ txn' = [txn EXCEPT ![r] = [NoTxn EXCEPT !.state = "rolledback"]]
    /\ pc' = [pc EXCEPT ![r] = "close"]
    /\ UNCHANGED <<employees, attendance, emp_seq, att_seq, payload, local, result>>

\* Variant: close() follows commit() inside the try block, not in finally.
CloseAfterCommitOnly(r) ==
    /\ pc[r] = "close"
    /\ txn' = [txn EXCEPT ![r] = IF txn[r].state = "committed"
                                 THEN [NoTxn EXCEPT !.state = "closed"]
                                 ELSE txn[r]]
    /\ pc' = [pc EXCEPT ![r] = "idle"]
    /\ payload' = [payload EXCEPT ![r] = NoPayload]
    /\ local' = [local EXCEPT ![r] = NoLocal]
    /\ result' = [result EXCEPT ![r] = "none"]
    /\ UNCHANGED <<employees, attendance, emp_seq, att_seq>>

\* finally: session.close(); the response is sent and the worker is free again.
\* (Leaving the async with block closes the already closed session once more, to
\* no effect.)
Close(r) ==
    /\ pc[r] = "close"
    /\ txn' = [txn EXCEPT ![r] = [NoTxn EXCEPT !.state = "closed"]]
    /\ pc' = [pc EXCEPT ![r] = "idle"]
    /\ payload' = [payload EXCEPT ![r] = NoPayload]
    /\ local' = [local EXCEPT ![r] = NoLocal]
    /\ result' = [result EXCEPT ![r] = "none"]
    /\ UNCHANGED <<employees, attendance, emp_seq, att_seq>>

Next ==
    \E r \in Reqs :
        \/ BeginCreateEmployee(r)
        \/ CeCheckId(r)
        \/ CeCheckEmail(r)
        \/ CeInsert(r)
        \/ BeginDeleteEmployee(r)
        \/ DeGet(r)
        \/ DeDelete(r)
        \/ BeginCreateAttendance(r)
        \/ CaGetEmployee(r)
        \/ CaCheckDup(r)
        \/ CaInsert(r)
        \/ BeginDeleteAttendance(r)
        \/ DaGet(r)
        \/ DaDelete(r)
        \/ Commit(r)
        \/ Rollback(r)
        \/ Close(r)

Spec == Init /\ [][Next]_vars

\* ------------------------------------------------------------ query model
\* The read handlers applied to every store of the bounded size that satisfies the
\* declared constraints (unique keys, foreign key).
StoredEmployee(i) ==
    [id |-> i, employee_id |-> [j \in 1..i |-> "E"], email |-> [j \in 1..i |-> "a"]]

StoredAttendance(e, d, st) ==
    [id |-> (e - 1) * MaxDate + d, employee_id |-> e, date |-> d, status |-> st]

InitQuery ==
    /\ \E ids \in SUBSET (1..MaxEmpPk) :
          /\ employees = {StoredEmployee(i) : i \in ids}
          /\ \E f \in [ids \X Dates -> StatusValues \cup {"unmarked"}] :
                attendance = {StoredAttendance(k[1], k[2], f[k]) :
                                 k \in {x \in ids \X Dates : f[x] # "unmarked"}}
    /\ emp_seq = MaxEmpPk
    /\ att_seq = MaxEmpPk * MaxDate
    /\ pc = [r \in Reqs |-> "idle"]
    /\ payload = [r \in Reqs |-> NoPayload]
    /\ local = [r \in Reqs |-> NoLocal]
    /\ txn = [r \in Reqs |-> NoTxn]
    /\ result = [r \in Reqs |-> "none"]

NextQuery ==
    \E r \in {1} :
        \/ BeginListAttendance(r)
        \/ LaQuery(r)
        \/ BeginSummary(r)
        \/ STotal(r)
        \/ SPresent(r)
        \/ SAbsent(r)
        \/ SCounts(r)
        \/ Commit(r)
        \/ Close(r)

SpecQuery == InitQuery /\ [][NextQuery]_vars

\* The per-employee listing applied to the same stores.
NextRange ==
    \E r \in {1} :
        \/ BeginByEmployee(r)
        \/ BeGet(r)
        \/ BeQuery(r)
        \/ Commit(r)
        \/ Close(r)

SpecRange == InitQuery /\ [][NextRange]_vars

\* ------------------------------------------------------------ progress model
\* Requests against a store that already holds the employees: attendance is marked
\* and removed and employees are deleted, which takes a handler through each way
\* of leaving get_db (return, error response, HTTPException, IntegrityError) and
\* through each wait for a concurrent session.
InitLive ==
    /\ employees = {StoredEmployee(i) : i \in 1..MaxEmpPk}
    /\ attendance = {}
    /\ emp_seq = MaxEmpPk
    /\ att_seq = 0
    /\ pc = [r \in Reqs |-> "idle"]
    /\ payload = [r \in Reqs |-> NoPayload]
    /\ local = [r \in Reqs |-> NoLocal]
    /\ txn = [r \in Reqs |-> NoTxn]
    /\ result = [r \in Reqs |-> "none"]

\* A request that has been started runs on: the event loop resumes a coroutine
\* whenever its awaited statement can complete.
Run(r) ==
    \/ DeGet(r) \/ DeDelete(r)
    \/ CaGetEmployee(r) \/ CaCheckDup(r) \/ CaInsert(r)
    \/ DaGet(r) \/ DaDelete(r)
    \/ Commit(r) \/ Rollback(r) \/ Close(r)

NextLive ==
    \E r \in Reqs :
        \/ BeginDeleteEmployee(r)
        \/ BeginCreateAttendance(r)
        \/ BeginDeleteAttendance(r)
        \/ Run(r)

\* The arrival of requests (Begin) is not assumed; the steps of a started request are.
SpecLive == InitLive /\ [][NextLive]_vars /\ \A r \in Reqs : WF_vars(Run(r))

\* ------------------------------------------------------------ summary model
\* The summary running while other requests add employees and mark attendance.
NextSummary ==
    \E r \in Reqs :
        \/ BeginSummary(r)
        \/ STotal(r)
        \/ SPresent(r)
        \/ SAbsent(r)
        \/ SCounts(r)
        \/ BeginCreateEmployee(r)
        \/ CeCheckId(r)
        \/ CeCheckEmail(r)
        \/ CeInsert(r)
        \/ BeginCreateAttendance(r)
        \/ CaGetEmployee(r)
        \/ CaCheckDup(r)
        \/ CaInsert(r)
        \/ Commit(r)
        \/ Rollback(r)
        \/ Close(r)

SpecSummary == Init /\ [][NextSummary]_vars

\* ================================================================ properties
Errors == {"Conflict", "NotFound", "EmployeeNotFound", "Duplicate",
           "AttendanceNotFound", "Internal"}

\* Request r takes a step.
Steps(r) == pc'[r] # pc[r]

\* The attendance row a create-attendance request asks for.
Wanted(r, a) == a.employee_id = payload[r].pk /\ a.date = payload[r].date

\* C1: in every reachable state of the store no two distinct attendance records
\* have the same (employee, date) pair.
C1_UniqueEmployeeDate ==
    \A a, b \in attendance :
        (a.employee_id = b.employee_id /\ a.date = b.date) => a = b

\* Two create-attendance requests for one (employee, date) both passed the
\* pre-check; the second insert was refused by the constraint.
C1_Witness ==
    \E r \in Reqs :
        /\ payload[r].op = "create_attendance"
        /\ pc[r] = "rollback"
        /\ \E a \in attendance : Wanted(r, a)

\* C2: a create-attendance request that fails at a step at which a record with
\* the same (employee, date) is stored fails with the duplicate error, also when
\* the record was inserted by a concurrent request after this request's pre-check.
C2_DuplicateIsConflict ==
    [][\A r \in Reqs :
          ( /\ payload[r].op = "create_attendance"
            /\ Steps(r)
            /\ result[r] = "none"
            /\ result'[r] \in Errors
            /\ \E a \in attendance : Wanted(r, a) )
          => result'[r] = "Duplicate"]_vars

\* Case-insensitive comparison of two e-mail addresses, surrounding blanks ignored.
SameEmail(x, y) == Lower(Strip(x)) = Lower(Strip(y))

\* C3: a create-employee request whose employee_id is that of a stored employee
\* when the id check reads the store, or whose e-mail is, case-insensitively, that
\* of a stored employee when the e-mail check reads it, ends with Conflict and adds
\* no employee; employee_id and e-mail (case-insensitively) are unique among the
\* stored employees.
C3_Inv ==
    /\ \A a, b \in employees :
          (a.employee_id = b.employee_id \/ SameEmail(a.email, b.email)) => a = b
    /\ \A r \in Reqs :
          result[r] = "Conflict"
          => /\ txn[r].newEmp = {}
             /\ pc[r] \in {"commit", "close"}

C3_Step ==
    \A r \in Reqs :
        /\ ( /\ pc[r] = "ce_check_id"
             /\ Steps(r)
             /\ \E e \in employees : e.employee_id = Strip(payload[r].raw_code) )
           => /\ pc'[r] = "ce_check_email"
              /\ "employee_id" \in local'[r].errors
        /\ ( /\ pc[r] = "ce_check_email"
             /\ Steps(r)
             /\ \/ "employee_id" \in local[r].errors
                \/ \E e \in employees : SameEmail(e.email, payload[r].raw_email) )
           => /\ result'[r] = "Conflict"
              /\ pc'[r] = "commit"
        /\ (result[r] = "Conflict" /\ Steps(r))
           => /\ employees' = employees
              /\ emp_seq' = emp_seq

C3_DuplicateEmployeeConflict == []C3_Inv /\ [][C3_Step]_vars

\* A create-employee whose e-mail differs from a stored one only in case and
\* surrounding blanks has been rejected with Conflict and has ended its session.
C3_Witness ==
    \E r \in Reqs :
        /\ payload[r].op = "create_employee"
        /\ result[r] = "Conflict"
        /\ pc[r] = "close"
        /\ local[r].errors = {"email"}
        /\ \E e \in employees : /\ e.email # payload[r].raw_email
                                /\ SameEmail(e.email, payload[r].raw_email)

\* C4: the commit of a successful delete-employee of e removes e and every
\* attendance record of e, and leaves every other row of both tables unchanged.
C4_DeleteEmployeeFrame ==
    [][\A r \in Reqs :
          ( /\ payload[r].op = "delete_employee"
            /\ result[r] = "OK"
            /\ pc[r] = "commit"
            /\ Steps(r) )
          => /\ employees' = {e \in employees : e.id # payload[r].pk}
             /\ attendance' = {a \in attendance : a.employee_id # payload[r].pk}]_vars

\* A delete-employee has committed: it removed the employee together with at least
\* one attendance record, and another employee still has a record.
C4_Witness ==
    \E r \in Reqs :
        /\ payload[r].op = "delete_employee"
        /\ pc[r] = "close"
        /\ txn[r].state = "committed"
        /\ txn[r].delAtt # {}
        /\ \A e \in employees : e.id # payload[r].pk
        /\ \E a \in attendance : a.employee_id # payload[r].pk

\* C5: in every committed state every attendance record references a stored
\* employee.
C5_NoOrphanAttendance ==
    \A a \in attendance : \E e \in employees : e.id = a.employee_id

\* A create-attendance passed its employee-existence check, the employee was then
\* deleted, and the insert was refused.
C5_Witness ==
    \E r \in Reqs :
        /\ payload[r].op = "create_attendance"
        /\ pc[r] = "rollback"
        /\ result[r] = "Internal"
        /\ \A e \in employees : e.id # payload[r].pk

\* C6: a create-attendance request whose employee is not stored when it is looked
\* up ends with the employee-not-found rejection and writes no attendance row; the
\* lookup is the first step, and the duplicate check and the insert are reached
\* only through it.
C6_Inv ==
    \A r \in Reqs :
        result[r] = "EmployeeNotFound"
        => /\ txn[r].newAtt = {}
           /\ pc[r] \in {"commit", "close"}

C6_Step ==
    \A r \in Reqs :
        /\ ( /\ pc[r] = "ca_get_employee"
             /\ Steps(r)
             /\ \A e \in employees : e.id # payload[r].pk )
           => /\ result'[r] = "EmployeeNotFound"
              /\ pc'[r] = "commit"
        /\ (result[r] = "EmployeeNotFound" /\ Steps(r))
           => /\ attendance' = attendance
              /\ att_seq' = att_seq
        /\ (payload'[r].op = "create_attendance" /\ pc[r] = "idle" /\ Steps(r))
           => pc'[r] = "ca_get_employee"
        /\ (pc'[r] = "ca_check_dup" /\ Steps(r))
           => /\ pc[r] = "ca_get_employee"
              /\ \E e \in employees : e.id = payload[r].pk
        /\ (pc'[r] = "ca_insert" /\ Steps(r)) => pc[r] = "ca_check_dup"

C6_EmployeeNotFound == []C6_Inv /\ [][C6_Step]_vars

\* A create-attendance for a missing employee has been rejected and has committed
\* its (empty) session.
C6_Witness ==
    \E r \in Reqs :
        /\ payload[r].op = "create_attendance"
        /\ result[r] = "EmployeeNotFound"
        /\ pc[r] = "close"
        /\ txn[r].state = "committed"

\* C7: a request that ends in an error has flushed no write, none of its steps
\* changes the employee or attendance table, and the tables change only at the
\* commit of a request that succeeded.
C7_Inv ==
    \A r \in Reqs :
        result[r] \in Errors
        => /\ txn[r].newEmp = {} /\ txn[r].newAtt = {}
           /\ txn[r].delEmp = {} /\ txn[r].delAtt = {}

C7_Step ==
    /\ \A r \in Reqs :
          /\ ((result[r] \in Errors \/ result'[r] \in Errors) /\ Steps(r))
             => (employees' = employees /\ attendance' = attendance)
          /\ (result[r] \in Errors /\ pc'[r] # "idle") => result'[r] = result[r]
    /\ (employees' # employees \/ attendance' # attendance)
       => \E r \in Reqs : /\ pc[r] = "commit" /\ pc'[r] = "close"
                          /\ result[r] = "OK"

C7_NoPartialEffect == []C7_Inv /\ [][C7_Step]_vars

\* A create whose insert was refused by a store constraint has been rolled back
\* while another request holds flushed, uncommitted writes.
C7_Witness ==
    \E r \in Reqs :
        /\ result[r] = "Internal"
        /\ pc[r] = "close"
        /\ txn[r].state = "rolledback"
        /\ \E q \in Others(r) : Pending(q).newAtt # {} \/ Pending(q).newEmp # {}

\* The present-status records of employee e.
PresentRecords(e) == {a \in attendance : a.employee_id = e /\ a.status = "present"}

\* C8: presentDaysByEmployee holds exactly one (employeeId, presentDays) pair for
\* each employee with at least one present record, presentDays being the number of
\* that employee's present records; no employee without a present record appears;
\* the sequence is sorted by presentDays in non-increasing order.
C8_PresentDaysByEmployee ==
    \A r \in Reqs :
        (payload[r].op = "summary" /\ result[r] = "OK")
        => LET out == local[r].out
           IN /\ \A e \in 1..MaxEmpPk :
                    /\ Cardinality({i \in DOMAIN out : out[i].employee_id = e})
                         = (IF PresentRecords(e) = {} THEN 0 ELSE 1)
                    /\ \A i \in DOMAIN out :
                          out[i].employee_id = e
                          => out[i].present_days = Cardinality(PresentRecords(e))
              /\ \A i \in DOMAIN out : out[i].employee_id \in 1..MaxEmpPk
              /\ \A i, j \in DOMAIN out :
                    i < j => out[i].present_days >= out[j].present_days

\* A summary has returned two pairs with different counts while an employee also
\* has an absent record.
C8_Witness ==
    \E r \in Reqs :
        /\ payload[r].op = "summary"
        /\ pc[r] = "close"
        /\ Len(local[r].out) = 2
        /\ local[r].out[1].present_days > local[r].out[2].present_days
        /\ \E a \in attendance : a.status = "absent"

\* C9: the summary returns totalEmployees = the number of employee rows,
\* presentToday = the number of attendance rows with date = today and status
\* present, and absentToday = the number with date = today and status absent.
C9_SummaryCounts ==
    \A r \in Reqs :
        (payload[r].op = "summary" /\ result[r] = "OK")
        => /\ local[r].total = Cardinality(employees)
           /\ local[r].present =
                 Cardinality({a \in attendance : a.date = payload[r].today
                                                 /\ a.status = "present"})
           /\ local[r].absent =
                 Cardinality({a \in attendance : a.date = payload[r].today
                                                 /\ a.status = "absent"})

\* The scenario of the specification: A present on day 1 and absent on day 2, B
\* present on day 1, today = day 1; the summary has returned 2, 2, 0.
C9_Witness ==
    \E r \in Reqs :
        /\ payload[r].op = "summary"
        /\ pc[r] = "close"
        /\ payload[r].today = 1
        /\ {<<a.employee_id, a.date, a.status>> : a \in attendance}
              = {<<1, 1, "present">>, <<1, 2, "absent">>, <<2, 1, "present">>}
        /\ local[r].total = 2 /\ local[r].present = 2 /\ local[r].absent = 0

\* The records that satisfy every filter that was supplied.
Matching(f_emp, f_date) ==
    {a \in attendance : /\ f_emp # None => a.employee_id = Val(f_emp)
                        /\ f_date # None => a.date = Val(f_date)}

\* C10: listAttendance returns exactly the records that satisfy every supplied
\* filter, each exactly once, ordered by date in non-increasing order.
C10_ListAttendanceExact ==
    \A r \in Reqs :
        (payload[r].op = "list_attendance" /\ result[r] = "OK")
        => LET out == local[r].out
           IN /\ {out[i] : i \in DOMAIN out} = Matching(payload[r].f_emp, payload[r].f_date)
              /\ \A i, j \in DOMAIN out : out[i] = out[j] => i = j
              /\ \A i, j \in DOMAIN out : i < j => out[i].date >= out[j].date

\* A date bound that was given: the parameter is present and is an ISO date.
Given(param) == param # None /\ Val(param).iso

\* A parameter that is absent or an ISO date.
WellFormed(param) == param = None \/ Val(param).iso

\* C11: for every employee e and optional date bounds, listByEmployee returns
\* exactly the attendance records of e whose date d satisfies dateFrom <= d when
\* dateFrom is given and d <= dateTo when dateTo is given, no record of another
\* employee, each once, ordered by date in non-increasing order; with
\* dateFrom = dateTo = D it returns exactly e's record for D, if any.
C11_ListByEmployeeExact ==
    \A r \in Reqs :
        ( /\ payload[r].op = "by_employee"
          /\ result[r] = "OK"
          /\ WellFormed(payload[r].q_from)
          /\ WellFormed(payload[r].q_to) )
        => LET out == local[r].out
               f == payload[r].q_from
               t == payload[r].q_to
           IN /\ {out[i] : i \in DOMAIN out}
                   = {a \in attendance :
                         /\ a.employee_id = payload[r].pk
                         /\ Given(f) => Val(f).day <= a.date
                         /\ Given(t) => a.date <= Val(t).day}
              /\ \A i, j \in DOMAIN out : out[i] = out[j] => i = j
              /\ \A i, j \in DOMAIN out : i < j => out[i].date >= out[j].date
              /\ (Given(f) /\ Given(t) /\ Val(f).day = Val(t).day)
                 => /\ Len(out) <= 1
                    /\ \A i \in DOMAIN out : out[i].date = Val(f).day

\* The scenario of the specification: A present on day 1 and absent on day 2;
\* listByEmployee(A, day 2, day 2) has returned exactly the absent record of day 2.
C11_Witness ==
    \E r \in Reqs :
        /\ payload[r].op = "by_employee"
        /\ pc[r] = "close"
        /\ payload[r].pk = 1
        /\ Given(payload[r].q_from) /\ Val(payload[r].q_from).day = 2
        /\ Given(payload[r].q_to) /\ Val(payload[r].q_to).day = 2
        /\ {<<a.date, a.status>> : a \in {x \in attendance : x.employee_id = 1}}
              = {<<1, "present">>, <<2, "absent">>}
        /\ Len(local[r].out) = 1
        /\ local[r].out[1].date = 2 /\ local[r].out[1].status = "absent"

\* The results with which a handler leaves by raising (HTTPException, IntegrityError).
Raised == {"NotFound", "Internal"}

\* C12: every request that acquires a session releases it exactly once: the session
\* is committed when the handler returns, rolled back when it raises, and closed in
\* both cases; no request ends with its session open, and every session that was
\* opened is eventually closed.
C12_Inv ==
    \A r \in Reqs :
        /\ pc[r] = "idle" => txn[r].state \in {"none", "closed"}
        /\ pc[r] # "idle" => txn[r].state \in {"open", "committed", "rolledback"}
        /\ txn[r].state = "committed" => result[r] \in {"OK"} \cup (Errors \ Raised)
        /\ txn[r].state = "rolledback" => result[r] \in Raised

C12_Step ==
    \A r \in Reqs :
        txn'[r].state # txn[r].state
        => \/ txn[r].state \in {"none", "closed"} /\ txn'[r].state = "open"
           \/ /\ txn[r].state = "open"
              /\ txn'[r].state = (IF result[r] \in Raised THEN "rolledback"
                                                           ELSE "committed")
           \/ txn[r].state \in {"committed", "rolledback"} /\ txn'[r].state = "closed"

C12_SessionReleased ==
    /\ []C12_Inv
    /\ [][C12_Step]_vars
    /\ \A r \in Reqs : (txn[r].state = "open") ~> (txn[r].state = "closed")

\* One request has raised and been rolled back and is about to close its session,
\* while another has gone through commit and close.
C12_Witness ==
    \E r \in Reqs :
        /\ pc[r] = "close"
        /\ txn[r].state = "rolledback"
        /\ result[r] = "Internal"
        /\ \E q \in Others(r) : pc[q] = "idle" /\ txn[q].state = "closed"

\* C13: every summary returned describes one state of the store, in particular
\* presentToday + absentToday <= totalEmployees, under any interleaving of the
\* summary's queries with concurrent create-employee and create-attendance requests.
C13_SummaryConsistent ==
    \A r \in Reqs :
        (payload[r].op = "summary" /\ result[r] = "OK")
        => local[r].present + local[r].absent <= local[r].total

====
